---- MODULE Spec2Model ----
(***************************************************************************)
(* Model of state_tracking/utils/text_to_text_utils.py: the                *)
(* TextToTextExample record, write_data (makedirs, optional in-place       *)
(* shuffle, one TFRecord per example, log, close) and decode_fn            *)
(* (parse_single_example against a fixed feature specification).           *)
(*                                                                         *)
(* Text is a sequence of code points, bytes are integers 0..255.  A        *)
(* serialized tf.train.Example is the sequence of its feature entries, a   *)
(* TFRecord file is a sequence of length-prefixed frames.                  *)
(***************************************************************************)
EXTENDS Integers, Sequences, FiniteSets, TLC

VARIABLES
    examples,    \* the caller's list object handed to write_data
    original,    \* the caller's list as first constructed (history)
    before,      \* the caller's list at the entry of the current call (history)
    shuffle,     \* the shuffle argument of the current call
    pc,          \* position of the current write_data call
    i,           \* 1-based index of the for loop over examples
    dirExists,   \* the parent directory of output_path exists
    file,        \* content of output_path: NoFile or a sequence of frames
    fileBefore,  \* content of output_path at the entry of the current call (history)
    handle,      \* the TFRecordWriter of the current call
    log,         \* log lines emitted by the current call
    err,         \* the exception the current call raised, if any
    trace,       \* the steps the current call has performed (history)
    calls,       \* number of write_data calls started
    cpc,         \* position of the codec exercise
    ex,          \* the example whose record is under decode
    rec,         \* a serialized record handed to decode_fn
    decoded      \* what decode_fn returned

vars == <<examples, original, before, shuffle, pc, i, dirExists, file, fileBefore,
          handle, log, err, trace, calls, cpc, ex, rec, decoded>>

writerVars == <<examples, original, before, shuffle, pc, i, dirExists, file,
                fileBefore, handle, log, err, trace, calls>>

codecVars == <<cpc, ex, rec, decoded>>

-----------------------------------------------------------------------------
(* Bounds *)

MaxStrLen == 2
MaxTurn == 1
MaxFrame == 1
MaxExamples == 2
MaxCalls == 2

-----------------------------------------------------------------------------
(* Text, and str.encode('utf-8') *)

\* 'A' (one byte), e-acute (two bytes), the euro sign (three bytes) and a lone
\* surrogate, which UTF-8 cannot represent.
CodePoints == {65, 233, 8364, 55296}

RECURSIVE SeqsUpTo(_, _)
SeqsUpTo(S, n) ==
    IF n = 0 THEN {<< >>}
    ELSE LET shorter == SeqsUpTo(S, n - 1)
         IN  shorter \cup {Append(s, c) : s \in {t \in shorter : Len(t) = n - 1}, c \in S}

Texts == SeqsUpTo(CodePoints, MaxStrLen)

IsSurrogate(c) == c >= 55296 /\ c <= 57343

EncodeChar(c) ==
    IF c < 128 THEN <<c>>
    ELSE IF c < 2048 THEN <<192 + (c \div 64), 128 + (c % 64)>>
    ELSE <<224 + (c \div 4096), 128 + ((c \div 64) % 64), 128 + (c % 64)>>

RECURSIVE EncodeChars(_)
EncodeChars(s) ==
    IF s = << >> THEN << >> ELSE EncodeChar(Head(s)) \o EncodeChars(Tail(s))

Encodable(s) == \A k \in 1..Len(s) : ~IsSurrogate(s[k])

\* errors='replace': what a sanitising encoder would do instead of raising.
Utf8EncodeReplace(s) ==
    [ok |-> TRUE,
     bytes |-> EncodeChars([k \in 1..Len(s) |-> IF IsSurrogate(s[k]) THEN 63 ELSE s[k]])]

\* s.encode('utf-8'): strict, raises UnicodeEncodeError on a surrogate.
Utf8Encode(s) ==
    IF Encodable(s) THEN [ok |-> TRUE, bytes |-> EncodeChars(s)]
    ELSE [ok |-> FALSE, bytes |-> << >>]

-----------------------------------------------------------------------------
(* TextToTextExample *)

Turns == 0..MaxTurn
Frames == 0..MaxFrame

TextToTextExample ==
    [src : Texts, tgt : Texts, dialog_id : Texts, turn : Turns, frame : Frames]

-----------------------------------------------------------------------------
(* tf.train.Feature / tf.train.Example and their serialization *)

bytes_feature(value) == [kind |-> "bytes_list", value |-> <<value>>]

int64_feature(value) == [kind |-> "int64_list", value |-> <<value>>]

\* A variant that swaps the 'input' and 'value' keys.
TfExampleSwapped(e) ==
    LET s == Utf8Encode(e.src)
        t == Utf8Encode(e.tgt)
        d == Utf8Encode(e.dialog_id)
    IN  [ok |-> s.ok /\ t.ok /\ d.ok,
         feature |-> << <<"input", bytes_feature(t.bytes)>>,
                        <<"value", bytes_feature(s.bytes)>>,
                        <<"dialog_id", bytes_feature(d.bytes)>>,
                        <<"turn", int64_feature(e.turn)>> >>]

\* A variant that persists the frame as a fifth feature.
TfExampleWithFrame(e) ==
    LET s == Utf8Encode(e.src)
        t == Utf8Encode(e.tgt)
        d == Utf8Encode(e.dialog_id)
    IN  [ok |-> s.ok /\ t.ok /\ d.ok,
         feature |-> << <<"input", bytes_feature(s.bytes)>>,
                        <<"value", bytes_feature(t.bytes)>>,
                        <<"dialog_id", bytes_feature(d.bytes)>>,
                        <<"turn", int64_feature(e.turn)>>,
                        <<"frame", int64_feature(e.frame)>> >>]

\* The tf.train.Example built in the loop body; ok is FALSE when one of the
\* three encode calls raises.
TfExample(e) ==
    LET s == Utf8Encode(e.src)
        t == Utf8Encode(e.tgt)
        d == Utf8Encode(e.dialog_id)
    IN  [ok |-> s.ok /\ t.ok /\ d.ok,
         feature |-> << <<"input", bytes_feature(s.bytes)>>,
                        <<"value", bytes_feature(t.bytes)>>,
                        <<"dialog_id", bytes_feature(d.bytes)>>,
                        <<"turn", int64_feature(e.turn)>> >>]

\* tf_example.SerializeToString(): one entry (key, kind, values) per feature.
SerializeToString(feature) ==
    [k \in 1..Len(feature) |->
        [key |-> feature[k][1], kind |-> feature[k][2].kind, value |-> feature[k][2].value]]

\* The record write_data appends for example e (e encodable).
WriteRecord(e) == SerializeToString(TfExample(e).feature)

-----------------------------------------------------------------------------
(* decode_fn: tf.io.parse_single_example against the feature specification *)

ParseError == [error |-> "InvalidArgument"]

IsError(d) == "error" \in DOMAIN d

Keys(r) == {r[k].key : k \in 1..Len(r)}

\* The feature stored under key (the last entry wins, as in a protobuf map).
Lookup(r, key) ==
    LET ks == {k \in 1..Len(r) : r[k].key = key}
    IN  r[CHOOSE k \in ks : \A m \in ks : m <= k]

VarLenFeature(dtype) == [len |-> "VarLen", dtype |-> dtype]

FixedLenFeature(dtype) == [len |-> "FixedLen", dtype |-> dtype]

\* A specification that requires every field (all four FixedLen, no default).
StrictFeatureSpec ==
    [input |-> FixedLenFeature("bytes_list"),
     value |-> FixedLenFeature("bytes_list"),
     dialog_id |-> FixedLenFeature("bytes_list"),
     turn |-> FixedLenFeature("int64_list")]

FeatureSpec ==
    [input |-> VarLenFeature("bytes_list"),
     value |-> VarLenFeature("bytes_list"),
     dialog_id |-> VarLenFeature("bytes_list"),
     turn |-> FixedLenFeature("int64_list")]

\* One feature of the record against its declaration.  A feature that is
\* absent or has no kind set is empty for VarLen and an error for a FixedLen
\* without default; a kind other than the declared dtype is an error; a
\* FixedLen of shape [] needs exactly one value.
ParseFeature(r, key, spec) ==
    IF key \notin Keys(r) \/ Lookup(r, key).kind = "not_set"
    THEN IF spec.len = "VarLen" THEN [ok |-> TRUE, value |-> << >>]
         ELSE [ok |-> FALSE, value |-> << >>]
    ELSE LET f == Lookup(r, key)
         IN  IF f.kind # spec.dtype THEN [ok |-> FALSE, value |-> << >>]
             ELSE IF spec.len = "VarLen" THEN [ok |-> TRUE, value |-> f.value]
             ELSE IF Len(f.value) # 1 THEN [ok |-> FALSE, value |-> << >>]
             ELSE [ok |-> TRUE, value |-> f.value[1]]

parse_single_example(serialized, features) ==
    LET p == [k \in DOMAIN features |-> ParseFeature(serialized, k, features[k])]
    IN  IF \E k \in DOMAIN features : ~p[k].ok THEN ParseError
        ELSE [k \in DOMAIN features |-> p[k].value]

decode_fn_strict(record_bytes) == parse_single_example(record_bytes, StrictFeatureSpec)

decode_fn(record_bytes) == parse_single_example(record_bytes, FeatureSpec)

-----------------------------------------------------------------------------
(* Records that write_data did not write: every combination of feature     *)
(* shapes under the four schema keys, with or without a fifth key.         *)

FieldKeys == <<"input", "value", "dialog_id", "turn", "extra">>

\* The shapes a feature can have under a key: absent, present with no kind
\* set, bytes_list of one value, int64_list of none, one or two values,
\* float_list of one value.
FeatureShapes ==
    << [kind |-> "absent", value |-> << >>],
       [kind |-> "bytes_list", value |-> << <<65>> >>],
       [kind |-> "not_set", value |-> << >>],
       [kind |-> "int64_list", value |-> << >>],
       [kind |-> "int64_list", value |-> <<1>>],
       [kind |-> "int64_list", value |-> <<1, 2>>],
       [kind |-> "float_list", value |-> <<1>>] >>

\* One shape per key; the fifth key is absent or a bytes_list.
ForeignChoices ==
    {c \in [1..5 -> 1..Len(FeatureShapes)] : c[5] <= 2}

RECURSIVE BuildRecord(_, _)
BuildRecord(c, k) ==
    IF k > 5 THEN << >>
    ELSE LET f == FeatureShapes[c[k]]
         IN  (IF f.kind = "absent" THEN << >>
              ELSE <<[key |-> FieldKeys[k], kind |-> f.kind, value |-> f.value]>>)
             \o BuildRecord(c, k + 1)

-----------------------------------------------------------------------------
(* random.shuffle: Fisher-Yates, in place on the caller's list *)

\* A swap that forgets to store the second element.
SwapOneWay(x, a, b) == [x EXCEPT ![a] = x[b]]

Swap(x, a, b) == [x EXCEPT ![a] = x[b], ![b] = x[a]]

\* The draws j = randbelow(k + 1) for the positions k = n, n-1, ..., 2 (1-based).
Draws(n) == {js \in [2..n -> 1..n] : \A k \in 2..n : js[k] <= k}

\* A shuffle that assigns x[k] = x[j] without the swap.
RECURSIVE FisherYatesNoSwap(_, _, _)
FisherYatesNoSwap(x, js, k) ==
    IF k < 2 THEN x ELSE FisherYatesNoSwap([x EXCEPT ![k] = x[js[k]]], js, k - 1)

RECURSIVE FisherYates(_, _, _)
FisherYates(x, js, k) ==
    IF k < 2 THEN x ELSE FisherYates(Swap(x, k, js[k]), js, k - 1)

\* A shuffle that runs whatever the flag says.
ShuffleAlways(x, sh) == {FisherYates(x, js, Len(x)) : js \in Draws(Len(x))}

\* if shuffle: random.shuffle(examples) -- the lists the caller's object can hold after it.
ShuffleOutcomes(x, sh) ==
    IF sh THEN {FisherYates(x, js, Len(x)) : js \in Draws(Len(x))} ELSE {x}

-----------------------------------------------------------------------------
(* The output file and the TFRecordWriter *)

NoFile == [exists |-> FALSE, frames |-> << >>]

\* One TFRecord frame: the length prefix and the payload.
Frame(r) == [length |-> Len(r), data |-> r]

\* Opening in append mode: an existing file keeps its records.
OpenForAppend(f) == [exists |-> TRUE, frames |-> f.frames]

\* tf.io.TFRecordWriter(output_path): creates the file or truncates it.
OpenForWrite(f) == [exists |-> TRUE, frames |-> << >>]

\* out_file.write(record)
WriteFrame(f, r) == [f EXCEPT !.frames = Append(@, Frame(r))]

\* Reading the file sequentially, frame by frame.
ReadRecords(f) == [k \in 1..Len(f.frames) |-> f.frames[k].data]

\* Manual bookkeeping: close only on the normal path.
CloseOnReturnOnly(h, raised) == IF raised THEN h ELSE "closed"

\* Leaving the with block, normally or by an exception: __exit__ closes.
WithExit(h, raised) == "closed"

\* A loop that stops one example early.
LoopDoneEarly(k, xs) == k >= Len(xs)

\* for example in examples: the iteration is over.
LoopDone(k, xs) == k > Len(xs)

Basename == "out.tfrecord"

-----------------------------------------------------------------------------
(* Inputs of the writer *)

Bad == <<55296>>

PoolBase == [src |-> <<65>>, tgt |-> <<233>>, dialog_id |-> <<65>>, turn |-> 0, frame |-> 0]

\* Example records the caller's list is drawn from: a well-formed one, one
\* unencodable in each text field, one with other content, one with another frame.
Pool ==
    {PoolBase,
     [PoolBase EXCEPT !.src = Bad],
     [PoolBase EXCEPT !.tgt = Bad],
     [PoolBase EXCEPT !.dialog_id = Bad],
     [PoolBase EXCEPT !.src = <<233>>, !.turn = MaxTurn],
     [PoolBase EXCEPT !.frame = MaxFrame]}

ExampleLists == UNION {[1..n -> Pool] : n \in 0..MaxExamples}

\* A file left at output_path by an earlier run.
StaleFile == WriteFrame(OpenForWrite(NoFile), WriteRecord(PoolBase))

NoExample == [none |-> TRUE]
NoResult == [none |-> TRUE]

CodecIdle ==
    /\ cpc = "idle"
    /\ ex = NoExample
    /\ rec = << >>
    /\ decoded = NoResult

WriterIdle ==
    /\ before = examples
    /\ shuffle = FALSE
    /\ pc = "idle"
    /\ i = 0
    /\ fileBefore = file
    /\ handle = "none"
    /\ log = << >>
    /\ err = "none"
    /\ trace = << >>
    /\ calls = 0

Init ==
    /\ examples \in ExampleLists
    /\ original = examples
    /\ file \in {NoFile, StaleFile}
    /\ dirExists = file.exists
    /\ WriterIdle
    /\ CodecIdle

-----------------------------------------------------------------------------
(* write_data *)

\* The caller invokes write_data(examples, output_path, sh) on its list.
Call(sh) ==
    /\ pc \in {"idle", "returned", "raised"}
    /\ calls < MaxCalls
    /\ calls' = calls + 1
    /\ shuffle' = sh
    /\ before' = examples
    /\ fileBefore' = file
    /\ pc' = "makedirs"
    /\ i' = 0
    /\ handle' = "none"
    /\ log' = << >>
    /\ err' = "none"
    /\ trace' = << >>
    /\ UNCHANGED <<examples, original, dirExists, file>>
    /\ UNCHANGED codecVars

\* tf.io.gfile.makedirs(os.path.dirname(output_path)): idempotent create.
MakedirsOk ==
    /\ pc = "makedirs"
    /\ dirExists' = TRUE
    /\ trace' = Append(trace, "makedirs")
    /\ pc' = "shuffle"
    /\ UNCHANGED <<examples, original, before, shuffle, i, file, fileBefore, handle,
                   log, err, calls>>
    /\ UNCHANGED codecVars

\* makedirs raises an I/O error: the call ends before anything else happens.
MakedirsFail ==
    /\ pc = "makedirs"
    /\ ~dirExists
    /\ err' = "io"
    /\ pc' = "raised"
    /\ UNCHANGED <<examples, original, before, shuffle, i, dirExists, file, fileBefore,
                   handle, log, trace, calls>>
    /\ UNCHANGED codecVars

\* if shuffle: random.shuffle(examples)
Shuffle ==
    /\ pc = "shuffle"
    /\ \E xs \in ShuffleOutcomes(examples, shuffle) : examples' = xs
    /\ trace' = IF shuffle THEN Append(trace, "shuffle") ELSE trace
    /\ pc' = "open"
    /\ UNCHANGED <<original, before, shuffle, i, dirExists, file, fileBefore, handle,
                   log, err, calls>>
    /\ UNCHANGED codecVars

\* with tf.io.TFRecordWriter(output_path) as out_file:
OpenOk ==
    /\ pc = "open"
    /\ file' = OpenForWrite(file)
    /\ handle' = "open"
    /\ i' = 1
    /\ trace' = Append(trace, "open")
    /\ pc' = "loop"
    /\ UNCHANGED <<examples, original, before, shuffle, dirExists, fileBefore, log, err,
                   calls>>
    /\ UNCHANGED codecVars

\* The file cannot be opened for writing: no handle exists.
OpenFail ==
    /\ pc = "open"
    /\ err' = "io"
    /\ pc' = "raised"
    /\ UNCHANGED <<examples, original, before, shuffle, i, dirExists, file, fileBefore,
                   handle, log, trace, calls>>
    /\ UNCHANGED codecVars

\* Leaving the with block by an exception of the given kind.
Raise(kind) ==
    /\ err' = kind
    /\ handle' = WithExit(handle, TRUE)
    /\ trace' = IF handle' = "closed" THEN Append(trace, "close") ELSE trace
    /\ pc' = "raised"

\* Loop body, one of the encode calls raises UnicodeEncodeError.
LoopEncodeError ==
    /\ pc = "loop"
    /\ ~LoopDone(i, examples)
    /\ ~TfExample(examples[i]).ok
    /\ Raise("encoding")
    /\ UNCHANGED <<examples, original, before, shuffle, i, dirExists, file, fileBefore,
                   log, calls>>
    /\ UNCHANGED codecVars

\* Loop body: build the tf.train.Example, serialize it, append it.
LoopWrite ==
    /\ pc = "loop"
    /\ ~LoopDone(i, examples)
    /\ TfExample(examples[i]).ok
    /\ file' = WriteFrame(file, WriteRecord(examples[i]))
    /\ i' = i + 1
    /\ trace' = Append(trace, "append")
    /\ UNCHANGED <<examples, original, before, shuffle, pc, dirExists, fileBefore, handle,
                   log, err, calls>>
    /\ UNCHANGED codecVars

\* Loop body: out_file.write raises an I/O error.
LoopWriteFail ==
    /\ pc = "loop"
    /\ ~LoopDone(i, examples)
    /\ TfExample(examples[i]).ok
    /\ Raise("io")
    /\ UNCHANGED <<examples, original, before, shuffle, i, dirExists, file, fileBefore,
                   log, calls>>
    /\ UNCHANGED codecVars

\* tf.logging.info('Wrote %s with %d examples', basename, len(examples))
LogInfo ==
    /\ pc = "loop"
    /\ LoopDone(i, examples)
    /\ log' = Append(log, [name |-> Basename, count |-> Len(examples)])
    /\ trace' = Append(trace, "log")
    /\ pc' = "exit"
    /\ UNCHANGED <<examples, original, before, shuffle, i, dirExists, file, fileBefore,
                   handle, err, calls>>
    /\ UNCHANGED codecVars

\* The with block ends normally and write_data returns.
Return ==
    /\ pc = "exit"
    /\ handle' = WithExit(handle, FALSE)
    /\ trace' = Append(trace, "close")
    /\ pc' = "returned"
    /\ UNCHANGED <<examples, original, before, shuffle, i, dirExists, file, fileBefore,
                   log, err, calls>>
    /\ UNCHANGED codecVars

Next ==
    \/ \E sh \in BOOLEAN : Call(sh)
    \/ MakedirsOk
    \/ MakedirsFail
    \/ Shuffle
    \/ OpenOk
    \/ OpenFail
    \/ LoopEncodeError
    \/ LoopWrite
    \/ LoopWriteFail
    \/ LogInfo
    \/ Return

Spec == Init /\ [][Next]_vars

-----------------------------------------------------------------------------
(* The codec on its own: one record, written by write_data's loop body or   *)
(* foreign, handed to decode_fn.                                            *)

InitCodec ==
    /\ examples = << >>
    /\ original = examples
    /\ file = NoFile
    /\ dirExists = FALSE
    /\ WriterIdle
    /\ CodecIdle

\* The loop body of write_data on one example: the record it appends.
EncodeRecord ==
    /\ cpc = "idle"
    /\ \E e \in TextToTextExample :
          /\ TfExample(e).ok
          /\ ex' = e
          /\ rec' = WriteRecord(e)
    /\ decoded' = NoResult
    /\ cpc' = "written"
    /\ UNCHANGED writerVars

\* A record from elsewhere.
ForeignRecord ==
    /\ cpc = "idle"
    /\ ex' = NoExample
    /\ \E c \in ForeignChoices : rec' = BuildRecord(c, 1)
    /\ decoded' = NoResult
    /\ cpc' = "foreign"
    /\ UNCHANGED writerVars

\* decode_fn(record_bytes)
Decode ==
    /\ cpc \in {"written", "foreign"}
    /\ decoded' = decode_fn(rec)
    /\ cpc' = IF cpc = "written" THEN "decoded_written" ELSE "decoded_foreign"
    /\ UNCHANGED <<ex, rec>>
    /\ UNCHANGED writerVars

NextCodec ==
    \/ EncodeRecord
    \/ ForeignRecord
    \/ Decode

SpecCodec == InitCodec /\ [][NextCodec]_vars

-----------------------------------------------------------------------------
(* Vocabulary of the properties *)

\* bytes.decode('utf-8') on well-formed input of up to three-byte sequences.
RECURSIVE Utf8Decode(_)
Utf8Decode(b) ==
    IF b = << >> THEN << >>
    ELSE IF b[1] < 128 THEN <<b[1]>> \o Utf8Decode(SubSeq(b, 2, Len(b)))
    ELSE IF b[1] < 224
         THEN <<(b[1] - 192) * 64 + (b[2] - 128)>> \o Utf8Decode(SubSeq(b, 3, Len(b)))
    ELSE <<(b[1] - 224) * 4096 + (b[2] - 128) * 64 + (b[3] - 128)>>
             \o Utf8Decode(SubSeq(b, 4, Len(b)))

\* The records write_data appends for the list xs, in list order.
WrittenRecords(xs) == [k \in 1..Len(xs) |-> WriteRecord(xs[k])]

Count(s, x) == Cardinality({k \in 1..Len(s) : s[k] = x})

IsPermutation(a, b) ==
    /\ Len(a) = Len(b)
    /\ \A k \in 1..Len(a) : Count(a, a[k]) = Count(b, a[k])

\* All three text fields of e can be represented in UTF-8.
Representable(e) == Encodable(e.src) /\ Encodable(e.tgt) /\ Encodable(e.dialog_id)

CallEnded == pc \in {"returned", "raised"}

\* xs with the frame of its k-th example replaced by fr[k].
WithFrames(xs, fr) == [k \in 1..Len(xs) |-> [xs[k] EXCEPT !.frame = fr[k]]]

Occurrences(step) == Count(trace, step)

Rank(step) ==
    CASE step = "makedirs" -> 1
      [] step = "shuffle" -> 2
      [] step = "open" -> 3
      [] step = "append" -> 4
      [] step = "log" -> 5
      [] step = "close" -> 6

SchemaKeys == {"input", "value", "dialog_id", "turn"}

TextKeys == {"input", "value", "dialog_id"}

\* The record holds a feature with data under key.
Present(r, key) == key \in Keys(r) /\ Lookup(r, key).kind # "not_set"

\* The record holds exactly the four schema fields with the declared types.
ExactSchema(r) ==
    /\ Len(r) = 4
    /\ Keys(r) = SchemaKeys
    /\ \A key \in TextKeys : Lookup(r, key).kind = "bytes_list"
    /\ Lookup(r, "turn").kind = "int64_list"

\* What decode_fn insists on: one int64 under turn, and no text field of another type.
Acceptable(r) ==
    /\ Present(r, "turn")
    /\ Lookup(r, "turn").kind = "int64_list"
    /\ Len(Lookup(r, "turn").value) = 1
    /\ \A key \in TextKeys : Present(r, key) => Lookup(r, key).kind = "bytes_list"

-----------------------------------------------------------------------------
(* Properties *)

\* C1: decoding the record written for an example e yields input = e.src,
\* value = e.tgt, dialog_id = e.dialog_id (each one byte string, equal to the
\* text once UTF-8 decoded) and turn = e.turn.
C1_RoundTrip ==
    cpc = "decoded_written" =>
        /\ ~IsError(decoded)
        /\ DOMAIN decoded = SchemaKeys
        /\ Len(decoded.input) = 1 /\ Utf8Decode(decoded.input[1]) = ex.src
        /\ Len(decoded.value) = 1 /\ Utf8Decode(decoded.value[1]) = ex.tgt
        /\ Len(decoded.dialog_id) = 1 /\ Utf8Decode(decoded.dialog_id[1]) = ex.dialog_id
        /\ decoded.turn = ex.turn

C1_Witness ==
    /\ cpc = "decoded_written"
    /\ ex.src = <<233, 65>>
    /\ ex.tgt = <<8364>>
    /\ ex.dialog_id = <<65>>
    /\ ex.turn = MaxTurn
    /\ decoded.input = << <<195, 169, 65>> >>
    /\ decoded.value = << <<226, 130, 172>> >>

\* C2: after a call with shuffle = false that returned, the i-th record read
\* from the file is the record of the i-th input example, for every i.
C2_OrderPreserved ==
    (pc = "returned" /\ ~shuffle) => ReadRecords(file) = WrittenRecords(before)

C2_Witness ==
    /\ pc = "returned"
    /\ ~shuffle
    /\ Len(before) >= 2
    /\ WriteRecord(before[1]) # WriteRecord(before[2])
    /\ Len(ReadRecords(file)) = Len(before)

\* C3: after a call with shuffle = true that returned, the records of the file
\* are a permutation of the records of the input examples (same multiset).
C3_ShufflePermutes ==
    (pc = "returned" /\ shuffle) =>
        IsPermutation(ReadRecords(file), WrittenRecords(before))

C3_Witness ==
    /\ pc = "returned"
    /\ shuffle
    /\ Len(before) > 1
    /\ ReadRecords(file) # WrittenRecords(before)

\* C4: after a call that returned, the file exists and reading it yields
\* exactly len(examples) records, whatever the path held before the call;
\* for the empty list that is zero records.
C4_RecordCount ==
    pc = "returned" =>
        /\ file.exists
        /\ Len(ReadRecords(file)) = Len(examples)
        /\ \A k \in 1..Len(file.frames) : file.frames[k].length = Len(file.frames[k].data)

C4_Witness ==
    /\ pc = "returned"
    /\ fileBefore.exists
    /\ Len(fileBefore.frames) > 0
    /\ examples = << >>
    /\ file.exists
    /\ ReadRecords(file) = << >>

\* C5 as stated: decode_fn rejects every record that does not hold exactly the
\* four schema fields with their types (a missing field, a fifth field, a
\* wrong-typed field).
C5_Original ==
    (cpc = "decoded_foreign" /\ ~ExactSchema(rec)) => IsError(decoded)

\* C5 amended: decode_fn fails exactly when turn is missing, is not an int64
\* list or does not hold one value, or when input, value or dialog_id is
\* present with a type other than bytes; a missing text field decodes to an
\* empty value and further fields are ignored.  A failure returns no mapping,
\* a success the full four-field mapping.
C5_DecodeRejects ==
    cpc \in {"decoded_foreign", "decoded_written"} =>
        /\ IsError(decoded) <=> ~Acceptable(rec)
        /\ IsError(decoded) => DOMAIN decoded = {"error"}
        /\ ~IsError(decoded) =>
              /\ DOMAIN decoded = SchemaKeys
              /\ \A key \in TextKeys : ~Present(rec, key) => decoded[key] = << >>

C5_Witness ==
    /\ cpc = "decoded_foreign"
    /\ "input" \notin Keys(rec)
    /\ "extra" \in Keys(rec)
    /\ ~IsError(decoded)
    /\ decoded.input = << >>

\* C6: in every terminal state of a call, returned or raised, the handle the
\* call opened is closed; a handle is open only inside the with block.
C6_HandleClosed ==
    /\ CallEnded => handle # "open"
    /\ handle = "open" => pc \in {"loop", "exit"}

C6_Witness ==
    /\ pc = "raised"
    /\ err = "encoding"
    /\ i = 2
    /\ Len(file.frames) = 1
    /\ handle = "closed"

\* C7 as stated: a call with shuffle = true leaves the caller's list in its
\* order from before the call, so a later call with shuffle = false writes the
\* original order.
C7_Original ==
    /\ (CallEnded /\ shuffle) => examples = before
    /\ (pc = "returned" /\ ~shuffle) => ReadRecords(file) = WrittenRecords(original)

\* C7 amended: write_data shuffles the caller's list in place.  After a call
\* the caller's list is a permutation of what it was before the call (the same
\* with shuffle = false), the records of the file the call opened are a prefix
\* of the records of the list in its order after the call, and a call with
\* shuffle = false that returns writes that order.
C7_InPlaceShuffle ==
    CallEnded =>
        /\ IsPermutation(examples, before)
        /\ ~shuffle => examples = before
        /\ handle = "closed" =>
              /\ Len(file.frames) <= Len(examples)
              /\ \A k \in 1..Len(file.frames) : ReadRecords(file)[k] = WriteRecord(examples[k])
        /\ pc = "returned" => ReadRecords(file) = WrittenRecords(examples)

C7_Witness ==
    /\ calls = 2
    /\ pc = "returned"
    /\ ~shuffle
    /\ examples # original
    /\ ReadRecords(file) # WrittenRecords(original)
    /\ ReadRecords(file) = WrittenRecords(examples)

\* C8: frame has no influence on the file: after a call with shuffle = false
\* that returned, the file equals the file written for any list that agrees
\* with the input in src, tgt, dialog_id and turn at every position, and no
\* record holds a frame.
C8_FrameDropped ==
    (pc = "returned" /\ ~shuffle) =>
        /\ \A fr \in [1..Len(before) -> Frames] :
              file.frames = [k \in 1..Len(before) |->
                                Frame(WriteRecord(WithFrames(before, fr)[k]))]
        /\ \A k \in 1..Len(file.frames) : Keys(file.frames[k].data) = SchemaKeys

C8_Witness ==
    /\ pc = "returned"
    /\ ~shuffle
    /\ Len(before) = 2
    /\ before[1].frame # before[2].frame
    /\ Len(file.frames) = 2

\* C9: the steps of a call come in the order makedirs, shuffle (if asked),
\* open, appends, log, close: every append follows makedirs, the shuffle and
\* the open and precedes the close; the log line is emitted at most once, only
\* after the last append, with the number of records appended, and exactly
\* once in a call that returns.
C9_StepOrder ==
    /\ \A p, q \in 1..Len(trace) :
          p < q => \/ Rank(trace[p]) < Rank(trace[q])
                   \/ trace[p] = "append" /\ trace[q] = "append"
    /\ Occurrences("append") > 0 =>
          /\ trace[1] = "makedirs"
          /\ dirExists
          /\ shuffle => trace[2] = "shuffle"
          /\ Occurrences("open") = 1
    /\ handle # "none" => Occurrences("append") = Len(file.frames)
    /\ Len(log) = Occurrences("log")
    /\ Len(log) <= 1
    /\ Len(log) = 1 =>
          /\ Occurrences("append") = Len(examples)
          /\ log[1].count = Occurrences("append")
          /\ log[1].count = Len(ReadRecords(file))
    /\ pc = "returned" => Len(log) = 1 /\ trace[Len(trace)] = "close"

C9_Witness ==
    /\ pc = "returned"
    /\ trace = <<"makedirs", "shuffle", "open", "append", "append", "log", "close">>
    /\ log = <<[name |-> Basename, count |-> 2]>>

\* C10: when encoding fails on the k-th example in write order, the call
\* raises at once: the file holds exactly the records of the first k-1
\* examples, nothing of the k-th or a later example, and no log line is
\* emitted; no call over a list with an unrepresentable text returns normally.
C10_EncodingError ==
    /\ (pc = "raised" /\ err = "encoding") =>
          /\ i \in 1..Len(examples)
          /\ ~Representable(examples[i])
          /\ \A m \in 1..(i - 1) : Representable(examples[m])
          /\ ReadRecords(file) = WrittenRecords(SubSeq(examples, 1, i - 1))
          /\ log = << >>
    /\ pc = "returned" => \A k \in 1..Len(examples) : Representable(examples[k])
    /\ (handle # "none" /\ pc # "exit" /\ pc # "returned") =>
          \A m \in 1..Len(examples) : m < i => Representable(examples[m])

C10_Witness ==
    /\ pc = "raised"
    /\ err = "encoding"
    /\ i = 2
    /\ Len(examples) >= 2
    /\ ReadRecords(file) = <<WriteRecord(examples[1])>>
    /\ log = << >>

====
